---- MODULE Spec2Model ----
(***************************************************************************)
(* The calculation engine of the Real Estate Investment Analyzer           *)
(* (src/app.py): calculate_metrics, calculate_cash_flow_projection and     *)
(* analyze_risk, applied to the values of the input form.                  *)
(*                                                                         *)
(* Python numbers are modelled in exact arithmetic as reduced fractions    *)
(* <<n, d>> with d > 0; float('inf') and a raised ZeroDivisionError are    *)
(* modelled explicitly.  Rounding of binary floating point is not          *)
(* modelled.                                                               *)
(***************************************************************************)
EXTENDS Integers, Sequences, FiniteSets, TLC

VARIABLES
    args,               \* the values of the input form the engine is called with
    MARKET_CONDITIONS,  \* the module-level market condition table
    metrics,            \* outcome of the last calculate_metrics call
    risk_analysis,      \* outcome of the last analyze_risk call
    pc,                 \* "idle", or "loop" inside calculate_cash_flow_projection
    loop_mortgage,      \* calculate_cash_flow_projection's local mortgage_payment
    loop_year,          \* the next value of its loop variable `year`
    projection_data,    \* its list of rows so far
    projections,        \* outcome of the last calculate_cash_flow_projection call
    returned            \* the row lists its calls have returned, in call order

vars == <<args, MARKET_CONDITIONS, metrics, risk_analysis, pc, loop_mortgage,
          loop_year, projection_data, projections, returned>>

\* ------------------------------------------------------------------------
\* Exact arithmetic on fractions <<n, d>>
\* ------------------------------------------------------------------------
Abs(x) == IF x < 0 THEN -x ELSE x

RECURSIVE GCD(_, _)
GCD(a, b) == IF b = 0 THEN a ELSE GCD(b, a % b)

\* the reduced fraction n/d (d # 0)
Rat(n, d) ==
    LET g == GCD(Abs(n), Abs(d))
        s == IF d < 0 THEN -1 ELSE 1
    IN  <<(s * n) \div g, (s * d) \div g>>

\* the integer k as a fraction
R(k) == <<k, 1>>

LCM(a, b) == (a \div GCD(a, b)) * b

\* a + b
Add(a, b) ==
    LET l == LCM(a[2], b[2])
    IN  Rat(a[1] * (l \div a[2]) + b[1] * (l \div b[2]), l)

\* -a
Neg(a) == <<-a[1], a[2]>>

\* a - b
Sub(a, b) == Add(a, Neg(b))

\* a * b
Mul(a, b) ==
    LET g1 == GCD(Abs(a[1]), b[2])
        g2 == GCD(Abs(b[1]), a[2])
    IN  Rat((a[1] \div g1) * (b[1] \div g2), (a[2] \div g2) * (b[2] \div g1))

\* a / b for b # 0 (Python raises ZeroDivisionError when b = 0: the callers
\* below test the divisor where the code can reach a zero one)
Div(a, b) == Mul(a, Rat(b[2], b[1]))

\* a < b, a <= b, a > b, a >= b
Lt(a, b) ==
    LET l == LCM(a[2], b[2])
    IN  a[1] * (l \div a[2]) < b[1] * (l \div b[2])
Le(a, b) == ~Lt(b, a)
Gt(a, b) == Lt(b, a)
Ge(a, b) == ~Lt(a, b)

\* a ** k for a whole number k >= 0; x ** 0 is 1 for every x, as in Python
RECURSIVE PowInt(_, _)
PowInt(a, k) ==
    IF k = 0 THEN R(1)
    ELSE LET h == PowInt(a, k \div 2)
             s == Mul(h, h)
         IN  IF k % 2 = 1 THEN Mul(a, s) ELSE s

\* a ** e where the exponent e is a fraction holding a whole number >= 0
Pow(a, e) == PowInt(a, e[1])

\* max(0, x)
Max0(x) == IF Lt(x, R(0)) THEN R(0) ELSE x

\* ------------------------------------------------------------------------
\* Python values that are not finite numbers
\* ------------------------------------------------------------------------
\* a finite float or int
PyNum(q) == [type |-> "float", inf |-> FALSE, val |-> q]
\* float('inf')
PyInf == [type |-> "float", inf |-> TRUE, val |-> R(0)]
\* a value is numeric when its Python type is int or float
IsNumeric(v) == v.type \in {"int", "float"}

\* ------------------------------------------------------------------------
\* calculate_metrics (src/app.py 115-190)
\* ------------------------------------------------------------------------
\* initial_investment = down_payment + closing_costs + renovation_costs
initial_investment(down_payment, closing_costs, renovation_costs) ==
    Add(Add(down_payment, closing_costs), renovation_costs)

\* metrics_mortgage_payment without the guard on loan_amount
C3_MutantMetricsMortgage(price, down_payment, loan_rate, loan_term) ==
    LET loan_amount == Sub(price, down_payment)
        monthly_interest_rate ==
            IF Gt(loan_rate, R(0)) THEN Div(Div(loan_rate, R(12)), R(100)) ELSE R(0)
        num_payments == IF Gt(loan_term, R(0)) THEN Mul(loan_term, R(12)) ELSE R(0)
    IN  IF Gt(monthly_interest_rate, R(0)) /\ Gt(num_payments, R(0))
        THEN Div(Mul(Mul(loan_amount, monthly_interest_rate),
                     Pow(Add(R(1), monthly_interest_rate), num_payments)),
                 Sub(Pow(Add(R(1), monthly_interest_rate), num_payments), R(1)))
        ELSE R(0)

\* the monthly mortgage payment as calculate_metrics computes it: the rate
\* and the number of payments are clamped to 0 first, then the three guards
metrics_mortgage_payment(price, down_payment, loan_rate, loan_term) ==
    LET loan_amount == Sub(price, down_payment)
        monthly_interest_rate ==
            IF Gt(loan_rate, R(0)) THEN Div(Div(loan_rate, R(12)), R(100)) ELSE R(0)
        num_payments == IF Gt(loan_term, R(0)) THEN Mul(loan_term, R(12)) ELSE R(0)
    IN  IF Gt(loan_amount, R(0)) /\ Gt(monthly_interest_rate, R(0))
           /\ Gt(num_payments, R(0))
        THEN Div(Mul(Mul(loan_amount, monthly_interest_rate),
                     Pow(Add(R(1), monthly_interest_rate), num_payments)),
                 Sub(Pow(Add(R(1), monthly_interest_rate), num_payments), R(1)))
        ELSE R(0)

\* effective_rental_income = rental_income * (1 - vacancy_rate / 100)
effective_rental_income(rental_income, vacancy_rate) ==
    Mul(rental_income, Sub(R(1), Div(vacancy_rate, R(100))))

\* monthly_cash_flow = effective_rental_income - expenses - mortgage_payment
monthly_cash_flow(effective_income, expenses, mortgage_payment) ==
    Sub(Sub(effective_income, expenses), mortgage_payment)

\* roi falling back to the cash flow itself when nothing was invested
C4_MutantRoi(annual_cash_flow, invested) ==
    IF Gt(invested, R(0))
    THEN Mul(Div(annual_cash_flow, invested), R(100))
    ELSE annual_cash_flow

\* roi = (annual_cash_flow / initial_investment) * 100 if initial_investment > 0 else 0
roi(annual_cash_flow, invested) ==
    IF Gt(invested, R(0))
    THEN Mul(Div(annual_cash_flow, invested), R(100))
    ELSE R(0)

\* cap_rate = ((effective_rental_income - expenses) * 12 / price) * 100 if price > 0 else 0
cap_rate(effective_income, expenses, price) ==
    IF Gt(price, R(0))
    THEN Mul(Div(Mul(Sub(effective_income, expenses), R(12)), price), R(100))
    ELSE R(0)

\* cash_on_cash = (annual_cash_flow / initial_investment) * 100 if initial_investment > 0 else 0
cash_on_cash(annual_cash_flow, invested) ==
    IF Gt(invested, R(0))
    THEN Mul(Div(annual_cash_flow, invested), R(100))
    ELSE R(0)

\* break_even also giving up when nothing was invested
C1_MutantBreakEven(invested, cash_flow) ==
    IF Gt(cash_flow, R(0)) /\ Gt(invested, R(0))
    THEN PyNum(Div(invested, cash_flow))
    ELSE PyInf

\* break_even = initial_investment / monthly_cash_flow if monthly_cash_flow > 0
\*              else float('inf')
break_even(invested, cash_flow) ==
    IF Gt(cash_flow, R(0))
    THEN PyNum(Div(invested, cash_flow))
    ELSE PyInf

\* depreciation_period = 27.5
depreciation_period == <<55, 2>>

\* annual_depreciation = (price - (price * 0.2)) / depreciation_period
annual_depreciation(price) ==
    Div(Sub(price, Mul(price, <<1, 5>>)), depreciation_period)

\* taxable_income = effective_rental_income * 12 - expenses * 12
\*                  - annual_depreciation - mortgage_payment * 12 * loan_rate / 100
taxable_income(effective_income, expenses, price, mortgage_payment, loan_rate) ==
    Sub(Sub(Sub(Mul(effective_income, R(12)), Mul(expenses, R(12))),
            annual_depreciation(price)),
        Div(Mul(Mul(mortgage_payment, R(12)), loan_rate), R(100)))

\* tax_savings without max(0, ...)
C5_MutantTaxSavings(taxable, tax_rate) == Div(Mul(taxable, tax_rate), R(100))

\* tax_savings = max(0, taxable_income * tax_rate / 100)
tax_savings(taxable, tax_rate) == Max0(Div(Mul(taxable, tax_rate), R(100)))

\* future_value without compounding: price * (1 + y * appreciation_rate / 100)
C15_MutantFutureValue(price, appreciation_rate, y) ==
    Mul(price, Add(R(1), Mul(R(y), Div(appreciation_rate, R(100)))))

\* future_value_<y>yr = price * (1 + appreciation_rate / 100) ** y
future_value(price, appreciation_rate, y) ==
    Mul(price, PowInt(Add(R(1), Div(appreciation_rate, R(100))), y))

\* total_equity with the loan subtracted only when loan_term > y
C14_MutantTotalEquity(price, down_payment, loan_term, appreciation_rate, y) ==
    IF Gt(loan_term, R(y))
    THEN Sub(future_value(price, appreciation_rate, y), Sub(price, down_payment))
    ELSE future_value(price, appreciation_rate, y)

\* total_equity_<y>yr = future_value_<y>yr - remaining_balance if loan_term >= y
\*                      else future_value_<y>yr, with remaining_balance = loan_amount
total_equity(price, down_payment, loan_term, appreciation_rate, y) ==
    LET loan_amount == Sub(price, down_payment)
        remaining_balance == loan_amount
    IN  IF Ge(loan_term, R(y))
        THEN Sub(future_value(price, appreciation_rate, y), remaining_balance)
        ELSE future_value(price, appreciation_rate, y)

\* the dictionary calculate_metrics returns
calculate_metrics(price, rental_income, expenses, down_payment, loan_rate, loan_term, vacancy_rate, appreciation_rate, tax_rate, closing_costs, renovation_costs, annual_income_growth, annual_expense_growth) ==
    LET invested == initial_investment(down_payment, closing_costs, renovation_costs)
        mortgage_payment ==
            metrics_mortgage_payment(price, down_payment, loan_rate, loan_term)
        effective_income == effective_rental_income(rental_income, vacancy_rate)
        cash_flow == monthly_cash_flow(effective_income, expenses, mortgage_payment)
        annual_cash_flow == Mul(cash_flow, R(12))
        savings ==
            tax_savings(taxable_income(effective_income, expenses, price,
                                       mortgage_payment, loan_rate), tax_rate)
    IN  [monthly_cash_flow   |-> cash_flow,
         annual_cash_flow    |-> annual_cash_flow,
         roi                 |-> roi(annual_cash_flow, invested),
         cap_rate            |-> cap_rate(effective_income, expenses, price),
         cash_on_cash        |-> cash_on_cash(annual_cash_flow, invested),
         mortgage_payment    |-> mortgage_payment,
         break_even_months   |-> break_even(invested, cash_flow),
         tax_savings         |-> savings,
         after_tax_cash_flow |-> Add(annual_cash_flow, savings),
         future_value_5yr    |-> future_value(price, appreciation_rate, 5),
         future_value_10yr   |-> future_value(price, appreciation_rate, 10),
         future_value_20yr   |-> future_value(price, appreciation_rate, 20),
         total_equity_5yr    |->
             total_equity(price, down_payment, loan_term, appreciation_rate, 5),
         total_equity_10yr   |->
             total_equity(price, down_payment, loan_term, appreciation_rate, 10),
         initial_investment  |-> invested]

\* ------------------------------------------------------------------------
\* calculate_cash_flow_projection (src/app.py 192-238)
\* ------------------------------------------------------------------------
\* the projection's payment formula without the loan_amount > 0 guard
C13_MutantProjectionMortgage(price, down_payment, loan_rate, loan_term) ==
    LET loan_amount == Sub(price, down_payment)
        monthly_interest_rate == Div(Div(loan_rate, R(12)), R(100))
        num_payments == Mul(loan_term, R(12))
    IN  IF Gt(monthly_interest_rate, R(0)) /\ Gt(num_payments, R(0))
        THEN Div(Mul(Mul(loan_amount, monthly_interest_rate),
                     Pow(Add(R(1), monthly_interest_rate), num_payments)),
                 Sub(Pow(Add(R(1), monthly_interest_rate), num_payments), R(1)))
        ELSE R(0)

\* the monthly mortgage payment as calculate_cash_flow_projection computes
\* it: its own copy of the formula, the rate and the number of payments are
\* not clamped before the three guards
projection_mortgage_payment(price, down_payment, loan_rate, loan_term) ==
    LET loan_amount == Sub(price, down_payment)
        monthly_interest_rate == Div(Div(loan_rate, R(12)), R(100))
        num_payments == Mul(loan_term, R(12))
    IN  IF Gt(loan_amount, R(0)) /\ Gt(monthly_interest_rate, R(0))
           /\ Gt(num_payments, R(0))
        THEN Div(Mul(Mul(loan_amount, monthly_interest_rate),
                     Pow(Add(R(1), monthly_interest_rate), num_payments)),
                 Sub(Pow(Add(R(1), monthly_interest_rate), num_payments), R(1)))
        ELSE R(0)

\* year_rental_income with the exponent year instead of year - 1
C7_MutantYearRentalIncome(rental_income, annual_income_growth, yr) ==
    Mul(rental_income, PowInt(Add(R(1), Div(annual_income_growth, R(100))), yr))

\* year_rental_income = rental_income * ((1 + annual_income_growth / 100) ** (year - 1))
year_rental_income(rental_income, annual_income_growth, yr) ==
    Mul(rental_income, PowInt(Add(R(1), Div(annual_income_growth, R(100))), yr - 1))

\* year_expenses compounding once more for every call already made
C6_MutantYearExpenses(expenses, annual_expense_growth, yr) ==
    Mul(expenses, PowInt(Add(R(1), Div(annual_expense_growth, R(100))),
                         yr - 1 + Len(returned)))

\* year_expenses = expenses * ((1 + annual_expense_growth / 100) ** (year - 1))
year_expenses(expenses, annual_expense_growth, yr) ==
    Mul(expenses, PowInt(Add(R(1), Div(annual_expense_growth, R(100))), yr - 1))

\* the loop over range(1, years) : one row too few
C11_MutantYearInRange(yr, years) == 1 <= yr /\ yr < years

\* year in range(1, years + 1)
year_in_range(yr, years) == 1 <= yr /\ yr < years + 1

\* the sum of the annual cash flows of a list of rows
RECURSIVE SumCashFlow(_)
SumCashFlow(rows) ==
    IF rows = <<>> THEN R(0)
    ELSE Add(SumCashFlow(SubSeq(rows, 1, Len(rows) - 1)),
             rows[Len(rows)].annual_cash_flow)

\* cumulative_cash_flow as a running sum over the rows appended so far
C12_MutantCumulative(annual_cash_flow, yr) ==
    Add(SumCashFlow(projection_data), annual_cash_flow)

\* 'cumulative_cash_flow': annual_cash_flow * year
cumulative_cash_flow(annual_cash_flow, yr) == Mul(annual_cash_flow, R(yr))

\* the dictionary appended to projection_data in the iteration for `yr`
projection_row(price, rental_income, expenses, vacancy_rate, appreciation_rate, annual_income_growth, annual_expense_growth, mortgage_payment, yr) ==
    LET effective_income ==
            Mul(year_rental_income(rental_income, annual_income_growth, yr),
                Sub(R(1), Div(vacancy_rate, R(100))))
        annual_mortgage == Mul(mortgage_payment, R(12))
        annual_income == Mul(effective_income, R(12))
        annual_expenses ==
            Mul(year_expenses(expenses, annual_expense_growth, yr), R(12))
        annual_cash_flow == Sub(Sub(annual_income, annual_expenses), annual_mortgage)
        property_value ==
            Mul(price, PowInt(Add(R(1), Div(appreciation_rate, R(100))), yr))
    IN  [year                 |-> yr,
         property_value       |-> property_value,
         annual_income        |-> annual_income,
         annual_expenses      |-> annual_expenses,
         annual_mortgage      |-> annual_mortgage,
         annual_cash_flow     |-> annual_cash_flow,
         cumulative_cash_flow |-> cumulative_cash_flow(annual_cash_flow, yr)]

\* ------------------------------------------------------------------------
\* analyze_risk (src/app.py 240-297)
\* ------------------------------------------------------------------------
\* the literal the module assigns to MARKET_CONDITIONS
MarketConditionTable ==
    [n \in {"Strong Growth", "Stable", "Declining", "Volatile"} |->
        CASE n = "Strong Growth" ->
                [vacancy_impact |-> -2, appreciation_impact |-> 2, price_trend |-> 5]
          [] n = "Stable" ->
                [vacancy_impact |-> 0, appreciation_impact |-> 0, price_trend |-> 2]
          [] n = "Declining" ->
                [vacancy_impact |-> 3, appreciation_impact |-> -2, price_trend |-> -3]
          [] n = "Volatile" ->
                [vacancy_impact |-> 2, appreciation_impact |-> 1, price_trend |-> 0]]

\* the entry read from the appreciation_impact of the label
C16_MutantVacancyImpact(table, market_condition) ==
    table[market_condition].appreciation_impact

\* MARKET_CONDITIONS[market_condition]["vacancy_impact"], the one entry of
\* the table analyze_risk reads
vacancy_impact(table, market_condition) == table[market_condition].vacancy_impact

\* adjusted_vacancy = vacancy_rate + MARKET_CONDITIONS[market_condition]["vacancy_impact"]
\* for a given content of the module-level table
adjusted_vacancy_in(table, vacancy_rate, market_condition) ==
    Add(vacancy_rate, R(vacancy_impact(table, market_condition)))

\* adjusted_vacancy with the table as it is at the call
adjusted_vacancy(vacancy_rate, market_condition) ==
    adjusted_vacancy_in(MARKET_CONDITIONS, vacancy_rate, market_condition)

\* tier with <= in place of <
C8_MutantTier(x, lo, hi) == IF Le(x, R(lo)) THEN 1 ELSE (IF Le(x, R(hi)) THEN 2 ELSE 3)

\* 1 if x < lo else (2 if x < hi else 3): the shape of every numeric factor
tier(x, lo, hi) == IF Lt(x, R(lo)) THEN 1 ELSE (IF Lt(x, R(hi)) THEN 2 ELSE 3)

\* "Vacancy Risk" score
vacancy_score(adjusted) == tier(adjusted, 5, 8)

\* "Price to Rent Ratio" score
price_to_rent_score(price_to_rent) == tier(price_to_rent, 15, 20)

\* "Expense Ratio" score
expense_ratio_score(expense_ratio) == tier(expense_ratio, 35, 45)

\* "Market Condition" score
market_condition_score(market_condition) ==
    IF market_condition \in {"Strong Growth", "Stable"}
    THEN 1
    ELSE (IF market_condition = "Volatile" THEN 2 ELSE 3)

\* "Property Age" score
property_age_score(property_age) == tier(property_age, 10, 30)

\* the word the description's f-string picks for a score
word(score, low, mid, high) == IF score = 1 THEN low ELSE (IF score = 2 THEN mid ELSE high)

\* the risk_factors dictionary
risk_factors(adjusted, price_to_rent, expense_ratio, market_condition, property_age) ==
    ("Vacancy Risk" :>
        [score |-> vacancy_score(adjusted),
         description |-> word(vacancy_score(adjusted), "low", "moderate", "high")])
    @@ ("Price to Rent Ratio" :>
        [score |-> price_to_rent_score(price_to_rent),
         description |-> word(price_to_rent_score(price_to_rent), "good", "fair", "poor")])
    @@ ("Expense Ratio" :>
        [score |-> expense_ratio_score(expense_ratio),
         description |->
             word(expense_ratio_score(expense_ratio), "favorable", "typical", "concerning")])
    @@ ("Market Condition" :>
        [score |-> market_condition_score(market_condition),
         description |->
             word(market_condition_score(market_condition), "low", "moderate", "high")])
    @@ ("Property Age" :>
        [score |-> property_age_score(property_age),
         description |-> word(property_age_score(property_age), "low", "moderate", "high")])

\* sum(factor["score"] for factor in risk_factors.values())
RECURSIVE SumScores(_, _)
SumScores(factors, names) ==
    IF names = {} THEN 0
    ELSE LET n == CHOOSE x \in names : TRUE
         IN  factors[n].score + SumScores(factors, names \ {n})

\* avg_score dividing by the scale's 3 instead of len(risk_factors)
C10_MutantAvgScore(factors) == Rat(SumScores(factors, DOMAIN factors), 3)

\* avg_score = sum(...) / len(risk_factors)
avg_score(factors) == Rat(SumScores(factors, DOMAIN factors), Cardinality(DOMAIN factors))

\* risk_level with the cut-offs 1.5 and 2.5
C9_MutantRiskLevel(avg) ==
    IF Lt(avg, <<15, 10>>) THEN "Low"
    ELSE (IF Lt(avg, <<25, 10>>) THEN "Medium" ELSE "High")

\* the risk level chosen from the average score
risk_level(avg) ==
    IF Lt(avg, <<17, 10>>) THEN "Low"
    ELSE (IF Lt(avg, <<23, 10>>) THEN "Medium" ELSE "High")

\* the CSS class chosen with it
risk_class(avg) ==
    IF Lt(avg, <<17, 10>>) THEN "risk-low"
    ELSE (IF Lt(avg, <<23, 10>>) THEN "risk-medium" ELSE "risk-high")

\* the outcome of analyze_risk: the dictionary it returns, or the
\* ZeroDivisionError Python raises at price / (rental_income * 12) when
\* rental_income * 12 is 0 (the first division of the function)
\* (for a given content of the module-level table)
analyze_risk_in(table, price, vacancy_rate, expenses, rental_income, market_condition, property_age, location) ==
    IF Mul(rental_income, R(12)) = R(0)
    THEN [status |-> "raised", exception |-> "ZeroDivisionError"]
    ELSE LET adjusted == adjusted_vacancy_in(table, vacancy_rate, market_condition)
             price_to_rent == Div(price, Mul(rental_income, R(12)))
             expense_ratio ==
                 Mul(Div(Mul(expenses, R(12)), Mul(rental_income, R(12))), R(100))
             factors == risk_factors(adjusted, price_to_rent, expense_ratio,
                                     market_condition, property_age)
         IN  [status |-> "returned",
              value  |-> [overall_risk |-> risk_level(avg_score(factors)),
                          risk_class   |-> risk_class(avg_score(factors)),
                          risk_score   |-> avg_score(factors),
                          factors      |-> factors]]

\* analyze_risk(...) with the table as it is at the call
analyze_risk(price, vacancy_rate, expenses, rental_income, market_condition, property_age, location) ==
    analyze_risk_in(MARKET_CONDITIONS, price, vacancy_rate, expenses, rental_income, market_condition, property_age, location)

\* ------------------------------------------------------------------------
\* The inputs
\* ------------------------------------------------------------------------
\* the longest projection period of the growth cases, and the number of
\* projection calls of a run
MaxYears == 5
MaxCalls == 2

\* one filling of the input form (money and percentages as fractions)
Form(price, rental_income, expenses, down_payment, loan, vacancy_rate, appreciation_rate, tax_rate, closing_costs, years, growth, market_condition, property_age, location) ==
    [price              |-> R(price),
     rental_income      |-> R(rental_income),
     expenses           |-> R(expenses),
     down_payment       |-> R(down_payment),
     loan_rate          |-> loan[1],
     loan_term          |-> loan[2],
     vacancy_rate       |-> R(vacancy_rate),
     appreciation_rate  |-> R(appreciation_rate),
     tax_rate           |-> R(tax_rate),
     closing_costs      |-> R(closing_costs),
     renovation_costs   |-> R(0),
     years              |-> years,
     annual_income_growth  |-> R(growth[1]),
     annual_expense_growth |-> R(growth[2]),
     market_condition   |-> market_condition,
     property_age       |-> R(property_age),
     location           |-> location]

\* <<loan_rate, loan_term>> pairs: no loan term, no interest, negative rate
\* or term, and loans whose payment formula is evaluated (1200 % over a
\* year is 12 payments at a monthly rate of 1; 12 % over a twelfth of a
\* year is one payment at a monthly rate of 1/100)
Loans ==
    { <<R(0), R(30)>>, <<R(-12), R(30)>>, <<R(12), R(0)>>, <<R(12), R(-1)>>,
      <<R(1200), R(1)>>, <<R(12), <<1, 12>> >> }

\* financing and tax cases of calculate_metrics
MetricsForms ==
    { Form(p, r, e, d, l, v, a, t, c, 1, <<2, 3>>, "Stable", 15, "Suburban") :
        p \in {0, 100}, r \in {0, 2}, e \in {0, 1, 2}, d \in {0, 20, 100, 120},
        l \in Loans, v \in {0, 50}, a \in {-50}, t \in {0, 25}, c \in {0, 5} }

\* appreciation and loan terms around the 5 and 10 year horizons
AppreciationForms ==
    { Form(p, 2, 1, d, l, 5, a, 25, 5, y, <<100, 50>>, "Strong Growth", 5, "Urban") :
        p \in {0, 100}, d \in {0, 20, 100},
        l \in {<<R(0), R(n)>> : n \in {4, 5, 9, 10}} \cup {<<R(1200), R(1)>>},
        a \in {-100, -50, 100}, y \in {1, MaxYears} }

\* growth cases of calculate_cash_flow_projection
ProjectionForms ==
    { Form(100, r, e, 20, l, v, a, 25, 5, y, g, "Stable", 15, "Suburban") :
        r \in {0, 2}, e \in {0, 1}, l \in {<<R(0), R(30)>>, <<R(1200), R(1)>>},
        v \in {0, 5}, a \in {-50, 0}, y \in 1..MaxYears,
        g \in {<<0, 0>>, <<0, 100>>, <<100, 0>>, <<50, 100>>} }

\* the tiers of analyze_risk, with each numeric factor below, on and between
\* its thresholds
RiskForms ==
    { Form(p, r, e, 720, <<R(0), R(30)>>, v, 0, 25, 100, 1, <<2, 3>>, m, g, loc) :
        p \in {3000, 3600, 4800}, r \in {0, 20}, e \in {6, 7, 9}, v \in {0, 3, 5, 8},
        m \in DOMAIN MarketConditionTable, g \in {9, 10, 30},
        loc \in {"Urban", "Suburban"} }

\* projections that reach the 10 and 20 year horizons of calculate_metrics
HorizonForms ==
    { Form(100, 2, 1, 20, lg[1], 5, a, 25, 5, y, lg[2], "Volatile", 40, "Urban") :
        lg \in { <<<<R(0), R(30)>>, <<0, 0>>>>, <<<<R(0), R(30)>>, <<0, 100>>>>,
                 <<<<R(1200), R(1)>>, <<0, 0>>>> },
        a \in {-50, 100}, y \in {10, 20} }

Forms ==
    MetricsForms \cup AppreciationForms \cup ProjectionForms \cup RiskForms
    \cup HorizonForms

\* ------------------------------------------------------------------------
\* The calls
\* ------------------------------------------------------------------------
NotCalled == [status |-> "none"]

Init ==
    /\ args \in Forms
    /\ MARKET_CONDITIONS = MarketConditionTable
    /\ metrics = NotCalled
    /\ risk_analysis = NotCalled
    /\ pc = "idle"
    /\ loop_mortgage = R(0)
    /\ loop_year = 0
    /\ projection_data = <<>>
    /\ projections = NotCalled
    /\ returned = <<>>

\* metrics = calculate_metrics(...), the call of main()
CallCalculateMetrics ==
    /\ pc = "idle"
    /\ metrics' =
         [status |-> "returned",
          value  |-> calculate_metrics(args.price, args.rental_income, args.expenses,
                         args.down_payment, args.loan_rate, args.loan_term,
                         args.vacancy_rate, args.appreciation_rate, args.tax_rate,
                         args.closing_costs, args.renovation_costs,
                         args.annual_income_growth, args.annual_expense_growth)]
    /\ UNCHANGED <<args, MARKET_CONDITIONS, risk_analysis, pc, loop_mortgage,
                   loop_year, projection_data, projections, returned>>

\* risk_analysis = analyze_risk(...), the call of main()
CallAnalyzeRisk ==
    /\ pc = "idle"
    /\ risk_analysis' =
         analyze_risk(args.price, args.vacancy_rate, args.expenses,
                      args.rental_income, args.market_condition,
                      args.property_age, args.location)
    /\ UNCHANGED <<args, MARKET_CONDITIONS, metrics, pc, loop_mortgage,
                   loop_year, projection_data, projections, returned>>

\* calculate_cash_flow_projection up to the loop: the mortgage payment and
\* the empty list
ProjectionEnter ==
    /\ pc = "idle"
    /\ Len(returned) < MaxCalls
    /\ loop_mortgage' = projection_mortgage_payment(args.price, args.down_payment,
                                                    args.loan_rate, args.loan_term)
    /\ projection_data' = <<>>
    /\ loop_year' = 1
    /\ pc' = "loop"
    /\ UNCHANGED <<args, MARKET_CONDITIONS, metrics, risk_analysis, projections,
                   returned>>

\* one iteration of for year in range(1, years + 1)
ProjectionIterate ==
    /\ pc = "loop"
    /\ year_in_range(loop_year, args.years)
    /\ projection_data' =
         Append(projection_data,
                projection_row(args.price, args.rental_income, args.expenses,
                               args.vacancy_rate, args.appreciation_rate,
                               args.annual_income_growth, args.annual_expense_growth,
                               loop_mortgage, loop_year))
    /\ loop_year' = loop_year + 1
    /\ UNCHANGED <<args, MARKET_CONDITIONS, metrics, risk_analysis, pc,
                   loop_mortgage, projections, returned>>

\* return projection_data
ProjectionReturn ==
    /\ pc = "loop"
    /\ ~year_in_range(loop_year, args.years)
    /\ projections' = [status |-> "returned", value |-> projection_data]
    /\ returned' = Append(returned, projection_data)
    /\ pc' = "idle"
    /\ UNCHANGED <<args, MARKET_CONDITIONS, metrics, risk_analysis, loop_mortgage,
                   loop_year, projection_data>>

Next ==
    \/ CallCalculateMetrics
    \/ CallAnalyzeRisk
    \/ ProjectionEnter
    \/ ProjectionIterate
    \/ ProjectionReturn

Spec == Init /\ [][Next]_vars

\* ------------------------------------------------------------------------
\* Properties
\* ------------------------------------------------------------------------
\* the quantities of the form the claims speak of
ArgsLoanAmount == Sub(args.price, args.down_payment)
ArgsInvestment ==
    Add(Add(args.down_payment, args.closing_costs), args.renovation_costs)
ArgsEffectiveIncome ==
    Mul(args.rental_income, Sub(R(1), Div(args.vacancy_rate, R(100))))

InRange ==
    /\ Ge(args.price, R(0))
    /\ Ge(args.rental_income, R(0))
    /\ Ge(args.expenses, R(0))
    /\ Ge(ArgsInvestment, R(0))
    /\ args.market_condition \in DOMAIN MarketConditionTable

\* C2: on in-range inputs, zero rent and zero initial investment included,
\* none of calculate_metrics, calculate_cash_flow_projection and
\* analyze_risk ends in an error: each call returns a result.
C2_NoEngineCallRaises ==
    InRange =>
        /\ metrics.status # "raised"
        /\ projections.status # "raised"
        /\ risk_analysis.status # "raised"

\* the mortgage payment C3 states, from the form
C3_Payment ==
    IF \/ Le(ArgsLoanAmount, R(0))
       \/ Le(args.loan_rate, R(0))
       \/ Le(args.loan_term, R(0))
    THEN R(0)
    ELSE LET r == Div(args.loan_rate, R(1200))
             n == Mul(args.loan_term, R(12))
             growth == Pow(Add(R(1), r), n)
         IN  Div(Mul(Mul(ArgsLoanAmount, r), growth), Sub(growth, R(1)))

\* C3: in both calculate_metrics and calculate_cash_flow_projection the
\* mortgage payment is exactly 0 whenever loan_amount <= 0, loan_rate <= 0
\* or loan_term <= 0, and L*r*(1+r)^n / ((1+r)^n - 1) with r = loan_rate/1200
\* and n = loan_term*12 otherwise.
C3_MortgagePayment ==
    /\ metrics.status = "returned" => metrics.value.mortgage_payment = C3_Payment
    /\ pc = "loop" => loop_mortgage = C3_Payment
    /\ \A i \in 1..Len(projection_data) :
           projection_data[i].annual_mortgage = Mul(C3_Payment, R(12))

\* both functions were called for a loan with a positive amount and rate
\* and a term that is not positive
C3_Witness ==
    /\ metrics.status = "returned"
    /\ projections.status = "returned"
    /\ Len(projections.value) > 0
    /\ Gt(ArgsLoanAmount, R(0))
    /\ Gt(args.loan_rate, R(0))
    /\ Le(args.loan_term, R(0))

\* C4: calculate_metrics returns roi = 0 and cash_on_cash = 0 whenever
\* initial_investment is 0, and cap_rate = 0 whenever price is 0, whatever
\* the other inputs.
C4_ZeroDenominators ==
    metrics.status = "returned" =>
        /\ ArgsInvestment = R(0) =>
             /\ metrics.value.roi = R(0)
             /\ metrics.value.cash_on_cash = R(0)
        /\ args.price = R(0) => metrics.value.cap_rate = R(0)

\* a call returned for a free property bought with no money, whose cash
\* flow is not zero
C4_Witness ==
    /\ metrics.status = "returned"
    /\ ArgsInvestment = R(0)
    /\ args.price = R(0)
    /\ metrics.value.annual_cash_flow # R(0)

\* C5: tax_savings >= 0 for all inputs, whatever the sign of taxable_income,
\* so after_tax_cash_flow = annual_cash_flow + tax_savings is never below
\* annual_cash_flow.
C5_TaxSavingsNonNegative ==
    metrics.status = "returned" =>
        LET m == metrics.value
        IN  /\ Ge(m.tax_savings, R(0))
            /\ m.after_tax_cash_flow = Add(m.annual_cash_flow, m.tax_savings)
            /\ Ge(m.after_tax_cash_flow, m.annual_cash_flow)

\* a call returned for a taxed property whose taxable income is negative
C5_Witness ==
    /\ metrics.status = "returned"
    /\ Gt(args.tax_rate, R(0))
    /\ Lt(taxable_income(ArgsEffectiveIncome, args.expenses, args.price,
                         metrics.value.mortgage_payment, args.loan_rate), R(0))

\* C6: calculate_cash_flow_projection is deterministic: every call made with
\* the same arguments returns the same row sequence, whatever other engine
\* calls were made in between, and leaves the module-level table as it was.
C6_ProjectionDeterministic ==
    /\ \A i \in 1..Len(returned) : \A j \in 1..Len(returned) :
           returned[i] = returned[j]
    /\ projections.status = "returned" =>
           projections.value = returned[Len(returned)]
    /\ MARKET_CONDITIONS = MarketConditionTable

\* the projection was called twice, with calculate_metrics and analyze_risk
\* called as well, for growing rent and expenses
C6_Witness ==
    /\ Len(returned) = 2
    /\ Len(returned[2]) >= 2
    /\ metrics.status = "returned"
    /\ risk_analysis.status = "returned"
    /\ args.annual_expense_growth # R(0)
    /\ args.expenses # R(0)

\* the rows of the running and of the returned projections
AllRows ==
    {projection_data[i] : i \in 1..Len(projection_data)}
    \cup UNION {{returned[c][i] : i \in 1..Len(returned[c])} : c \in 1..Len(returned)}

\* C7: in the row for year 1 growth is not applied: annual_income =
\* rental_income * (1 - vacancy_rate/100) * 12 and annual_expenses =
\* expenses * 12, whatever the two growth rates.
C7_FirstYearUngrown ==
    \A row \in AllRows :
        row.year = 1 =>
            /\ row.annual_income =
                 Mul(Mul(args.rental_income,
                         Sub(R(1), Div(args.vacancy_rate, R(100)))), R(12))
            /\ row.annual_expenses = Mul(args.expenses, R(12))

\* the year 1 row exists for rent and expenses that both grow
C7_Witness ==
    /\ Len(projection_data) >= 1
    /\ projection_data[1].year = 1
    /\ args.annual_income_growth # R(0)
    /\ args.annual_expense_growth # R(0)
    /\ Gt(args.rental_income, R(0))
    /\ Gt(args.expenses, R(0))
    /\ Lt(args.vacancy_rate, R(100))

\* the quantities analyze_risk scores, from the form (rental_income # 0)
ArgsAdjustedVacancy ==
    Add(args.vacancy_rate,
        R(MarketConditionTable[args.market_condition].vacancy_impact))
ArgsPriceToRent == Div(args.price, Mul(args.rental_income, R(12)))
ArgsExpenseRatio == Mul(Div(args.expenses, args.rental_income), R(100))

\* a value on the lower threshold scores 2, on the upper one 3, below the
\* lower one 1
OnThreshold(x, lo, hi, score) ==
    /\ x = R(lo) => score = 2
    /\ x = R(hi) => score = 3
    /\ Lt(x, R(lo)) => score = 1

\* C8: every numeric factor scores a value lying exactly on a threshold
\* into the higher tier: adjusted vacancy 5 -> 2 and 8 -> 3, price to rent
\* 15 -> 2 and 20 -> 3, expense ratio 35 -> 2 and 45 -> 3, property age
\* 10 -> 2 and 30 -> 3, and values strictly below the lower threshold -> 1.
C8_ThresholdsInHigherTier ==
    risk_analysis.status = "returned" =>
        LET f == risk_analysis.value.factors
        IN  /\ OnThreshold(ArgsAdjustedVacancy, 5, 8, f["Vacancy Risk"].score)
            /\ OnThreshold(ArgsPriceToRent, 15, 20, f["Price to Rent Ratio"].score)
            /\ OnThreshold(ArgsExpenseRatio, 35, 45, f["Expense Ratio"].score)
            /\ OnThreshold(args.property_age, 10, 30, f["Property Age"].score)

\* a result for a form with all four numeric factors on their lower
\* thresholds
C8_Witness ==
    /\ risk_analysis.status = "returned"
    /\ ArgsAdjustedVacancy = R(5)
    /\ ArgsPriceToRent = R(15)
    /\ ArgsExpenseRatio = R(35)
    /\ args.property_age = R(10)

\* the sum of the five scores of a returned result
C9_ScoreSum ==
    LET f == risk_analysis.value.factors
    IN  f["Vacancy Risk"].score + f["Price to Rent Ratio"].score
        + f["Expense Ratio"].score + f["Market Condition"].score
        + f["Property Age"].score

\* C9: overall_risk is Low iff the mean of the five scores is < 1.7 (score
\* sum 5..8), Medium iff it is >= 1.7 and < 2.3 (sum 9..11), and High
\* otherwise (sum 12..15).
C9_Classification ==
    risk_analysis.status = "returned" =>
        LET level == risk_analysis.value.overall_risk
            mean == Rat(C9_ScoreSum, 5)
        IN  /\ level = "Low" <=> Lt(mean, <<17, 10>>)
            /\ level = "Low" <=> C9_ScoreSum \in 5..8
            /\ level = "Medium" <=> (Ge(mean, <<17, 10>>) /\ Lt(mean, <<23, 10>>))
            /\ level = "Medium" <=> C9_ScoreSum \in 9..11
            /\ level = "High" <=> C9_ScoreSum \in 12..15

\* a result whose scores sum to 8, the largest sum that is still Low
C9_Witness ==
    /\ risk_analysis.status = "returned"
    /\ C9_ScoreSum = 8
    /\ risk_analysis.value.overall_risk = "Low"

\* C10: a returned result has exactly the five named factors, each with a
\* score in {1,2,3}; risk_score is the arithmetic mean of the five scores
\* and lies in [1,3]; overall_risk is Low, Medium or High.
C10_ResultShape ==
    risk_analysis.status = "returned" =>
        LET v == risk_analysis.value
        IN  /\ DOMAIN v.factors =
                 {"Vacancy Risk", "Price to Rent Ratio", "Expense Ratio",
                  "Market Condition", "Property Age"}
            /\ \A n \in DOMAIN v.factors : v.factors[n].score \in {1, 2, 3}
            /\ v.risk_score = Rat(C9_ScoreSum, 5)
            /\ Ge(v.risk_score, R(1)) /\ Le(v.risk_score, R(3))
            /\ v.overall_risk \in {"Low", "Medium", "High"}

\* a result whose five scores are all 3
C10_Witness ==
    /\ risk_analysis.status = "returned"
    /\ \A n \in DOMAIN risk_analysis.value.factors :
           risk_analysis.value.factors[n].score = 3
    /\ risk_analysis.value.risk_score = R(3)

\* the rows of a list are the years 1..Len in order
Chronological(rows) == \A i \in 1..Len(rows) : rows[i].year = i

\* what holds of the rows at every point of a call and of every returned list
C11_RowsInOrder ==
    /\ Chronological(projection_data)
    /\ pc = "loop" =>
         /\ Len(projection_data) = loop_year - 1
         /\ Len(projection_data) <= args.years
    /\ \A c \in 1..Len(returned) :
         /\ Len(returned[c]) = args.years
         /\ Chronological(returned[c])
    /\ projections.status = "returned" =>
         /\ Len(projections.value) = args.years
         /\ Chronological(projections.value)

\* C11: for years >= 1 calculate_cash_flow_projection terminates and returns
\* exactly `years` rows, the i-th with year = i; at every point of the loop
\* the rows appended so far are the years 1..k in order.
\* Termination is shown by the variant years + 1 - year: it is never negative
\* inside the loop, and a step of the loop either raises year by one or
\* returns the `years` rows (the guards of the two steps are complementary,
\* so one of them can always be taken).
C11_ChronologicalRows ==
    /\ [](args.years >= 1 => C11_RowsInOrder)
    /\ [](pc = "loop" /\ args.years >= 1 =>
            1 <= loop_year /\ loop_year <= args.years + 1)
    /\ [][pc = "loop" /\ args.years >= 1 =>
            \/ pc' = "loop" /\ loop_year' = loop_year + 1
            \/ /\ pc' = "idle"
               /\ projections'.status = "returned"
               /\ Len(projections'.value) = args.years]_vars

\* a call returned the rows of the longest period
C11_Witness ==
    /\ projections.status = "returned"
    /\ args.years = 20
    /\ Len(projections.value) = 20
    /\ pc = "idle"

\* C12: in every row cumulative_cash_flow is that row's annual_cash_flow
\* multiplied by the row's year, where annual_cash_flow = annual_income -
\* annual_expenses - annual_mortgage; it is not the running sum of the rows'
\* annual cash flows.
C12_CumulativeIsProduct ==
    \A row \in AllRows :
        /\ row.annual_cash_flow =
             Sub(Sub(row.annual_income, row.annual_expenses), row.annual_mortgage)
        /\ row.cumulative_cash_flow = Mul(row.annual_cash_flow, R(row.year))

\* a returned list whose last row's cumulative_cash_flow differs from the sum
\* of the annual cash flows up to that row
C12_Witness ==
    /\ projections.status = "returned"
    /\ Len(projections.value) >= 2
    /\ projections.value[Len(projections.value)].cumulative_cash_flow
         # SumCashFlow(projections.value)

\* C13: for the same price, down_payment, loan_rate and loan_term (zero and
\* negative rate or term included) the annual_mortgage of every projection
\* row is 12 times the mortgage_payment calculate_metrics returns, so it is
\* the same in every row; the payment held by a running call agrees as well.
C13_MortgageCopiesAgree ==
    metrics.status = "returned" =>
        /\ \A row \in AllRows :
               row.annual_mortgage = Mul(metrics.value.mortgage_payment, R(12))
        /\ pc = "loop" => loop_mortgage = metrics.value.mortgage_payment

\* both functions ran on a loan with a positive amount and rate and a
\* negative term, which calculate_metrics clamps and the projection does not
C13_Witness ==
    /\ metrics.status = "returned"
    /\ projections.status = "returned"
    /\ Len(projections.value) >= 1
    /\ Gt(ArgsLoanAmount, R(0))
    /\ Gt(args.loan_rate, R(0))
    /\ Lt(args.loan_term, R(0))

\* price * (1 + appreciation_rate/100)^y for the values of the form
ArgsFutureValue(y) ==
    Mul(args.price, PowInt(Add(R(1), Div(args.appreciation_rate, R(100))), y))

\* C14: for y = 5 and y = 10 calculate_metrics returns total_equity =
\* future_value(y) - loan_amount when loan_term >= y and future_value(y)
\* when loan_term < y, with future_value(y) = price *
\* (1 + appreciation_rate/100)^y and loan_amount = price - down_payment.
C14_EquityAtHorizon ==
    metrics.status = "returned" =>
        /\ metrics.value.future_value_5yr = ArgsFutureValue(5)
        /\ metrics.value.future_value_10yr = ArgsFutureValue(10)
        /\ metrics.value.total_equity_5yr =
             IF Lt(args.loan_term, R(5)) THEN ArgsFutureValue(5)
             ELSE Sub(ArgsFutureValue(5), ArgsLoanAmount)
        /\ metrics.value.total_equity_10yr =
             IF Lt(args.loan_term, R(10)) THEN ArgsFutureValue(10)
             ELSE Sub(ArgsFutureValue(10), ArgsLoanAmount)

\* a loan of exactly 5 years on a property that changes value: the loan is
\* subtracted at 5 years and not at 10
C14_Witness ==
    /\ metrics.status = "returned"
    /\ args.loan_term = R(5)
    /\ Gt(ArgsLoanAmount, R(0))
    /\ args.appreciation_rate = R(100)
    /\ metrics.value.total_equity_5yr # metrics.value.future_value_5yr
    /\ metrics.value.total_equity_10yr = metrics.value.future_value_10yr

\* C15: for the same inputs, in exact arithmetic, the row of year 1 has the
\* annual_cash_flow calculate_metrics returns, and the rows of years 5, 10
\* and 20, when present, have future_value_5yr, future_value_10yr and
\* future_value_20yr as their property_value.
C15_EnginesAgree ==
    metrics.status = "returned" =>
        \A row \in AllRows :
            /\ row.year = 1 =>
                 row.annual_cash_flow = metrics.value.annual_cash_flow
            /\ row.year = 5 =>
                 row.property_value = metrics.value.future_value_5yr
            /\ row.year = 10 =>
                 row.property_value = metrics.value.future_value_10yr
            /\ row.year = 20 =>
                 row.property_value = metrics.value.future_value_20yr

\* both functions returned for a mortgaged property that appreciates, with a
\* projection of 20 rows
C15_Witness ==
    /\ metrics.status = "returned"
    /\ projections.status = "returned"
    /\ Len(projections.value) = 20
    /\ args.appreciation_rate = R(100)
    /\ Gt(metrics.value.mortgage_payment, R(0))
    /\ projections.value[1].annual_cash_flow = metrics.value.annual_cash_flow
    /\ projections.value[20].property_value = metrics.value.future_value_20yr

\* the locations of the sample properties
Locations == {"Urban", "Suburban", "Coastal", "Rural"}

\* the table with every appreciation_impact moved by da and every
\* price_trend by dp
OtherEntries(table, da, dp) ==
    [n \in DOMAIN table |->
        [table[n] EXCEPT !.appreciation_impact = @ + da, !.price_trend = @ + dp]]

\* the table with every vacancy_impact moved by dv
OtherVacancyImpact(table, dv) ==
    [n \in DOMAIN table |-> [table[n] EXCEPT !.vacancy_impact = @ + dv]]

\* the call of main() repeated with another table and another location
RiskWith(table, location) ==
    analyze_risk_in(table, args.price, args.vacancy_rate, args.expenses,
                    args.rental_income, args.market_condition,
                    args.property_age, location)

\* C16: the outcome of analyze_risk is the same for every location and for
\* every value of the appreciation_impact and price_trend entries of the
\* table (scores, risk_score and overall_risk included), and the call leaves
\* the table as the module defined it.
C16_LocationAndTrendIgnored ==
    risk_analysis.status # "none" =>
        /\ MARKET_CONDITIONS = MarketConditionTable
        /\ \A loc \in Locations : \A da \in {0, 7} : \A dp \in {0, -7} :
               RiskWith(OtherEntries(MARKET_CONDITIONS, da, dp), loc) = risk_analysis

\* a returned analysis that a different vacancy_impact would have changed,
\* for a label whose appreciation_impact and price_trend are not zero
C16_Witness ==
    /\ risk_analysis.status = "returned"
    /\ args.market_condition = "Declining"
    /\ args.location = "Urban"
    /\ RiskWith(MARKET_CONDITIONS, "Suburban") = risk_analysis
    /\ RiskWith(OtherVacancyImpact(MARKET_CONDITIONS, -3), "Urban").value.risk_score
         # risk_analysis.value.risk_score

====





